---- MODULE Spec2Model ----
(***************************************************************************)
(* TRAJEP.py: the LAMMPS trajectory parser.  The script is one top-level   *)
(* sequence of loops; the model follows it statement by statement with a   *)
(* program counter.  Python indices are kept 0-based (lines[k], matrix     *)
(* rows and columns); TLA+ sequences are 1-based, so LineAt(k) reads       *)
(* element k+1.                                                            *)
(*                                                                         *)
(* Numbers.  Coordinates are floats in the source.  The model keeps a      *)
(* float as an exact fraction <<num, den>>, den > 0, so that x / RF is     *)
(* computed (not assumed) and a cell divided twice differs from a cell     *)
(* divided once.  Times are kept in units of 1e-5 ns, in which TIMESTEP    *)
(* (0.00005 ns) is 5.  Floating-point rounding is not modelled.            *)
(***************************************************************************)
EXTENDS Integers, Sequences, FiniteSets

(***************************************************************************)
(* Program inputs and constants                                            *)
(***************************************************************************)
\* sys.argv[2]: the wall entrance, in unnormalized units
x1 == 5
\* TIMESTEP = 0.00005 ns, in units of 1e-5 ns
TIMESTEP == 5
\* RF = 8.6 nm = RFNum / RFDen
RFNum == 43
RFDen == 5
\* the dump header has 9 lines
HEADER == 9

(***************************************************************************)
(* Bounds of the explored inputs                                           *)
(***************************************************************************)
MaxChunks == 2
MaxFiles == 2
AtomIds == {10, 20, 30}
DumpSteps == {0, 7, 50}
Coords == {x1 - 1, x1}

(***************************************************************************)
(* Text of a dump file.  A line is its whitespace-separated fields and     *)
(* whether it ends in a newline (only the last line of a file may lack     *)
(* it).  A field is an integer literal or a non-numeric word.              *)
(***************************************************************************)
Num(v) == [num |-> TRUE, v |-> v]
Word == [num |-> FALSE, v |-> 0]
Line(toks) == [toks |-> toks, nl |-> TRUE]

\* str.split() on an atom line: the fields
Split(line) == line.toks

\* int(s) / float(s) of one field: defined on numeric literals only
IsNumeric(tok) == tok.num
ValueOf(tok) == tok.v

\* s[0:len(s)-1]: drops the last character of the line.  That is the
\* newline when there is one.  On an unterminated line it is the last
\* character of the last field: a digit of a number (v \div 10, or nothing
\* left of a one-digit number), or a letter of a word (still a word).
ChopLast(line) ==
    IF line.nl THEN line.toks
    ELSE IF line.toks = <<>> THEN <<>>
    ELSE LET k == Len(line.toks)
             last == line.toks[k]
             front == SubSeq(line.toks, 1, k - 1)
         IN IF ~last.num THEN line.toks
            ELSE IF last.v >= 10 THEN Append(front, Num(last.v \div 10))
            ELSE front

\* int(<string>) of a whole (chopped) header line: a value only when the
\* string is exactly one integer literal
IntParses(toks) == Len(toks) = 1 /\ toks[1].num
IntOf(toks) == toks[1].v

(***************************************************************************)
(* The explored dump files.  MkFile lays a file out as the format comment  *)
(* of the source describes it (lines 57-66): per chunk a 9-line header     *)
(* (line 1 the timestep value, line 3 the number of atoms) and one line    *)
(* per atom, "id x ...".  Only the fields the script reads are kept.       *)
(*   n      the atom count written in the headers                          *)
(*   step   the timestep difference between consecutive chunks             *)
(*   chunks the number of complete chunks, extra the number of lines of a  *)
(*          further, incomplete chunk                                      *)
(*   ord1   the identifiers of the first chunk in file order, ordN those   *)
(*          of every later chunk                                           *)
(*   xs     xs[c][p]: the coordinate on the p-th atom line of chunk c      *)
(*   bad    one damaged atom line: a non-numeric identifier ("id"), a      *)
(*          non-numeric coordinate ("coord") or a missing column ("cols")  *)
(*   nl     whether the last line of the file ends in a newline            *)
(***************************************************************************)
NAtoms == Cardinality(AtomIds)
NthId(p) == CHOOSE a \in AtomIds : Cardinality({b \in AtomIds : b < a}) = p - 1
Canon(n) == [p \in 1..n |-> NthId(p)]
Reversed(n) == [p \in 1..n |-> NthId(n + 1 - p)]
Orders(n) == [1..n -> AtomIds]
Grids(n, c) == [0..(c - 1) -> [1..n -> Coords]]
NoBad == [kind |-> "none", c |-> 0, p |-> 0]
BadLines(n, c) == [kind : {"id", "coord", "cols"}, c : 0..(c - 1), p : 1..n]

AtomLineOf(P, c, p) ==
    LET id == IF c = 0 THEN P.ord1[p] ELSE P.ordN[p]
        x == IF c < P.chunks THEN P.xs[c][p] ELSE x1
        hit == P.bad.kind # "none" /\ P.bad.c = c /\ P.bad.p = p
    IN IF hit /\ P.bad.kind = "id" THEN <<Word, Num(x)>>
       ELSE IF hit /\ P.bad.kind = "coord" THEN <<Num(id), Word>>
       ELSE IF hit /\ P.bad.kind = "cols" THEN <<Num(id)>>
       ELSE <<Num(id), Num(x)>>

LineOf(P, k) ==
    LET dl == P.n + HEADER
        c == k \div dl
        off == k % dl
    IN IF off = 1 THEN <<Num(c * P.step)>>
       ELSE IF off = 3 THEN <<Num(P.n)>>
       ELSE IF off \in {5, 6, 7} THEN <<Num(0), Num(100)>>
       ELSE IF off < HEADER THEN <<Word, Word>>
       ELSE AtomLineOf(P, c, off - HEADER + 1)

MkFile(P) ==
    LET total == P.chunks * (P.n + HEADER) + P.extra
    IN [k \in 1..total |->
          [toks |-> LineOf(P, k - 1), nl |-> (k < total \/ P.nl)]]

Param(n, step, chunks, extra, ord1, ordN, xs, bad, nl) ==
    [n |-> n, step |-> step, chunks |-> chunks, extra |-> extra,
     ord1 |-> ord1, ordN |-> ordN, xs |-> xs, bad |-> bad, nl |-> nl]

\* coordinate patterns: one cell at the wall, all cells, no cell
OnlyAt(n, c, tc, pp) ==
    [u \in 0..(c - 1) |-> [p \in 1..n |-> IF u = tc /\ p = pp THEN x1 ELSE x1 - 1]]
AllAt(n, c, x) == [u \in 0..(c - 1) |-> [p \in 1..n |-> x]]
\* the identifiers rotated by one place: unsorted, none repeated
Rotated(n) == [p \in 1..n |-> NthId((p % n) + 1)]

\* every order of identifiers (repeated identifiers included) in the first
\* and in the later chunks, one atom line per file reaching the wall
OrderParams ==
    UNION { UNION { { Param(n, 7, c, 0, o1, oN, OnlyAt(n, c, tc, pp), NoBad, TRUE) :
                        o1 \in Orders(n), oN \in Orders(n),
                        tc \in 0..(c - 1), pp \in 1..n } :
                    c \in 2..MaxChunks } :
            n \in 1..NAtoms }

\* every pattern of coordinates, the chunks listing the atoms in different
\* orders
ScanParams ==
    UNION { UNION { { Param(n, 7, c, 0, o1, Reversed(n), g, NoBad, TRUE) :
                        o1 \in {Canon(n), Rotated(n)}, g \in Grids(n, c) } :
                    c \in 2..MaxChunks } :
            n \in 1..NAtoms }

\* complete and truncated files: every length class, terminated or not
TruncParams ==
    UNION { UNION { { Param(n, s, c, e, Rotated(n), Reversed(n), g, NoBad, nl) :
                        s \in DumpSteps, e \in {0, 1, 2, HEADER + 1},
                        g \in {AllAt(n, c, x1), AllAt(n, c, x1 - 1)},
                        nl \in BOOLEAN } :
                    c \in 1..MaxChunks } :
            n \in 1..NAtoms }

\* one damaged atom line in an otherwise regular file
BadParams ==
    { Param(NAtoms, 7, 2, 0, Canon(NAtoms), Reversed(NAtoms),
            AllAt(NAtoms, 2, x1), b, TRUE) :
        b \in BadLines(NAtoms, 2) }

\* files cut inside the first header, and a header whose atom count is text
Regular == MkFile(Param(1, 7, 2, 0, Canon(1), Canon(1),
                        [t \in 0..1 |-> [p \in 1..1 |-> x1]], NoBad, TRUE))
Unterminated(f) ==
    [k \in 1..Len(f) |-> [toks |-> f[k].toks, nl |-> k < Len(f)]]
HeadFiles ==
    { SubSeq(Regular, 1, k) : k \in 0..4 }
      \cup { Unterminated(SubSeq(Regular, 1, 4)) }
      \cup { [Regular EXCEPT ![4] = Line(<<Word>>)] }
      \cup { [Regular EXCEPT ![HEADER + 1 + 2] = Line(<<Word>>)] }

SingleFiles ==
    { MkFile(P) : P \in OrderParams \cup ScanParams \cup TruncParams \cup BadParams } \cup HeadFiles

\* the batches: one file of any explored shape, or several files of the
\* shapes that decide what a batch does with a file
BatchFiles ==
    { MkFile(P) : P \in
        { Param(NAtoms, 7, 2, 0, Canon(NAtoms), Reversed(NAtoms),
                [t \in 0..1 |-> [p \in 1..NAtoms |-> IF t = 1 /\ p = 1 THEN x1 ELSE x1 - 1]],
                NoBad, TRUE),
          Param(NAtoms, 7, 2, 0, Reversed(NAtoms), Canon(NAtoms),
                [t \in 0..1 |-> [p \in 1..NAtoms |-> IF t = 1 /\ p = NAtoms THEN x1 ELSE x1 - 1]],
                NoBad, TRUE),
          Param(NAtoms, 7, 2, 0, Canon(NAtoms), Canon(NAtoms),
                [t \in 0..1 |-> [p \in 1..NAtoms |-> x1 - 1]], NoBad, TRUE),
          Param(1, 7, 1, 0, Canon(1), Canon(1),
                [t \in 0..0 |-> [p \in 1..1 |-> x1]], NoBad, TRUE),
          Param(1, 7, 2, 0, Canon(1), Canon(1),
                [t \in 0..1 |-> [p \in 1..1 |-> x1]],
                [kind |-> "coord", c |-> 1, p |-> 1], TRUE) } }
      \cup { SubSeq(Regular, 1, 3) }

\* pairs of files that differ only in the order of the atom lines inside the
\* chunks: each atom keeps its coordinates, every chunk lists every atom once
LineOrders(n) == {o \in Orders(n) : \A p, q \in 1..n : o[p] = o[q] => p = q}
XById(id, c) == IF c >= 1 /\ id # NthId(1) THEN x1 ELSE x1 - 1
PermFile(o1, oN) ==
    MkFile(Param(NAtoms, 7, 2, 0, o1, oN,
                 [c \in 0..1 |-> [p \in 1..NAtoms |-> XById((IF c = 0 THEN o1 ELSE oN)[p], c)]],
                 NoBad, TRUE))
PermPairs ==
    { <<PermFile(Rotated(NAtoms), Reversed(NAtoms)), PermFile(o1, oN)>> :
        o1 \in LineOrders(NAtoms), oN \in LineOrders(NAtoms) }

RECURSIVE SeqsUpTo(_, _)
SeqsUpTo(S, n) ==
    IF n = 0 THEN {<<>>}
    ELSE LET shorter == SeqsUpTo(S, n - 1)
         IN shorter \cup { Append(q, e) : q \in {r \in shorter : Len(r) = n - 1}, e \in S }

Batches ==
    { <<f>> : f \in SingleFiles }
      \cup { b \in SeqsUpTo(BatchFiles, MaxFiles) : Len(b) >= 2 }
      \cup PermPairs

(***************************************************************************)
(* Floats and numpy arrays                                                 *)
(***************************************************************************)
\* an element of np.empty(...): allocated, never assigned, value indeterminate
Empty == [set |-> FALSE, num |-> 0, den |-> 1]
\* float(<integer literal>)
Float(v) == [set |-> TRUE, num |-> v, den |-> 1]
\* cell /= RF  (RF = RFNum / RFDen)
DivRF(cell) ==
    [set |-> cell.set, num |-> cell.num * RFDen, den |-> cell.den * RFNum]
\* xPos >= x
GE(cell, x) == cell.num >= x * cell.den
\* np.empty((rows, cols)) and np.empty((len,)), 0-based
EmptyMatrix(rows, cols) == [a \in 0..(rows - 1) |-> [c \in 0..(cols - 1) |-> Empty]]
EmptyArray(len) == [c \in 0..(len - 1) |-> Empty]

\* len(lines) / dumpLength is a float: kept as the fraction <<len, dumpLength>>;
\* int(numDumps) truncates it
IntPart(q) == q[1] \div q[2]

\* sorted(atomList): insertion of each element into a sorted prefix
RECURSIVE Insert(_, _)
Insert(sq, e) ==
    IF sq = <<>> THEN <<e>>
    ELSE IF e < Head(sq) THEN <<e>> \o sq
    ELSE <<Head(sq)>> \o Insert(Tail(sq), e)
Unsorted(sq) == sq
RECURSIVE Sorted(_)
Sorted(sq) == IF sq = <<>> THEN <<>> ELSE Insert(Sorted(Tail(sq)), Head(sq))

\* idToIndex after "for i in range(numAtoms): idToIndex[atomList[i]] = i":
\* a later assignment to the same key replaces the earlier one
IndexTable(sq) ==
    [id \in {sq[k] : k \in 1..Len(sq)} |->
        (CHOOSE k \in 1..Len(sq) :
            sq[k] = id /\ \A m \in 1..Len(sq) : sq[m] = id => m <= k) - 1]

(***************************************************************************)
(* Program state                                                           *)
(***************************************************************************)
VARIABLES
    fileList,           \* the discovered files, each its list of lines
    pc,                 \* the statement the script is at
    error,              \* the uncaught exception and the line that raised it
    fi,                 \* how many items of fileList the read loop has taken
    opened,             \* the files (by position) whose handle is open
    numAtoms, dumpLength, numDumps, dumpStep,
    newPolymerData, atomList, idToIndex,
    i, j, t,            \* the loop variables (module globals in the script)
    polymerList, polymerMeta,
    firstMonomerFound, firstMonomerCoords,
    firstMonomerIndex, firstMonomerTime,
    distArray, timeArray, distAxis, timeAxis

readVars == <<numAtoms, dumpLength, numDumps, dumpStep, newPolymerData, atomList, idToIndex>>
scanVars == <<firstMonomerFound, firstMonomerCoords, firstMonomerIndex, firstMonomerTime>>
axisVars == <<distArray, timeArray, distAxis, timeAxis>>
vars == <<fileList, pc, error, fi, opened, readVars, i, j, t,
          polymerList, polymerMeta, scanVars, axisVars>>

\* lines = file.readlines() of the file the read loop is at
lines == fileList[fi]
\* lines[k], 0-based
LineAt(k) == lines[k + 1]

NoError == [exc |-> "none", line |-> 0]

Init ==
    /\ fileList \in Batches
    /\ pc = "files"
    /\ error = NoError
    /\ fi = 0
    /\ opened = {}
    /\ numAtoms = 0 /\ dumpLength = 0 /\ numDumps = <<0, 1>> /\ dumpStep = 0
    /\ newPolymerData = <<>> /\ atomList = <<>> /\ idToIndex = <<>>
    /\ i = 0 /\ j = 0 /\ t = 0
    /\ polymerList = <<>> /\ polymerMeta = <<>>
    /\ firstMonomerFound = FALSE /\ firstMonomerCoords = <<>>
    /\ firstMonomerIndex = <<>> /\ firstMonomerTime = <<>>
    /\ distArray = <<>> /\ timeArray = <<>> /\ distAxis = <<>> /\ timeAxis = <<>>

\* an uncaught exception ends the script: nothing after it runs
Raise(e, line) ==
    /\ pc' = "raised"
    /\ error' = [exc |-> e, line |-> line]
    /\ UNCHANGED <<fileList, fi, opened, readVars, i, j, t,
                   polymerList, polymerMeta, scanVars, axisVars>>

(***************************************************************************)
(* The read loop (lines 73-117)                                            *)
(***************************************************************************)
\* for dumpFile in fileList: file = open(dumpFile, 'r'); lines = file.readlines()
\* The script closes a handle only at line 117.  A handle left open by a
\* "continue" loses its last reference when `file` is rebound here, after
\* the new handle exists; whether the runtime then reclaims it is up to
\* the runtime, so both outcomes are kept.
OpenFile ==
    /\ pc = "files"
    /\ fi < Len(fileList)
    /\ fi' = fi + 1
    /\ \E reclaimed \in {{}, opened} : opened' = (opened \ reclaimed) \cup {fi + 1}
    /\ pc' = "header"
    /\ UNCHANGED <<fileList, error, readVars, i, j, t,
                   polymerList, polymerMeta, scanVars, axisVars>>

\* what lines 77-84 compute, as far as they get
HeaderAtoms == IntOf(ChopLast(LineAt(3)))
HeaderLength == HeaderAtoms + HEADER
HeaderDumps == <<Len(lines), HeaderLength>>
HeaderStepToks == ChopLast(LineAt(HeaderLength + 1))

\* lines 77-78 and 82-83: the file is too short, "continue"
SkipFile ==
    /\ pc = "header"
    /\ \/ /\ Len(lines) < 4
          /\ UNCHANGED <<numAtoms, dumpLength, numDumps>>
       \/ /\ Len(lines) >= 4
          /\ IntParses(ChopLast(LineAt(3)))
          /\ Len(lines) < HeaderLength + 2
          /\ numAtoms' = HeaderAtoms
          /\ dumpLength' = HeaderLength
          /\ numDumps' = HeaderDumps
    /\ pc' = "files"
    /\ UNCHANGED <<fileList, error, fi, opened, dumpStep, newPolymerData, atomList,
                   idToIndex, i, j, t, polymerList, polymerMeta, scanVars, axisVars>>

\* lines 77-85 on a file long enough: the header values and the empty matrix;
\* int() of a header line that is not an integer literal raises ValueError
\* (at line 84 after numAtoms, dumpLength and numDumps were assigned).
\* The explored headers hold atom counts of 1 and more, so dumpLength > 0.
ReadHeader ==
    /\ pc = "header"
    /\ Len(lines) >= 4
    /\ IF ~IntParses(ChopLast(LineAt(3))) THEN Raise("ValueError", 79)
       ELSE /\ Len(lines) >= HeaderLength + 2
            /\ IF ~IntParses(HeaderStepToks)
               THEN /\ pc' = "raised"
                    /\ error' = [exc |-> "ValueError", line |-> 84]
                    /\ numAtoms' = HeaderAtoms
                    /\ dumpLength' = HeaderLength
                    /\ numDumps' = HeaderDumps
                    /\ UNCHANGED <<fileList, fi, opened, dumpStep, newPolymerData,
                                   atomList, idToIndex, i, j, t, polymerList,
                                   polymerMeta, scanVars, axisVars>>
               ELSE /\ numAtoms' = HeaderAtoms
                    /\ dumpLength' = HeaderLength
                    /\ numDumps' = HeaderDumps
                    /\ dumpStep' = IntOf(HeaderStepToks)
                    /\ newPolymerData' = EmptyMatrix(HeaderAtoms, IntPart(HeaderDumps))
                    /\ atomList' = <<>>
                    /\ i' = 0
                    /\ pc' = "ids"
                    /\ UNCHANGED <<fileList, error, fi, opened, idToIndex, j, t,
                                   polymerList, polymerMeta, scanVars, axisVars>>

\* lines 89-94, one iteration: the identifier of atom line i of the first chunk
IdentifyAtom ==
    /\ pc = "ids"
    /\ i < numAtoms
    /\ LET lineElements == Split(LineAt(i + HEADER))
       IN IF lineElements = <<>> THEN Raise("IndexError", 93)
          ELSE IF ~IsNumeric(lineElements[1]) THEN Raise("ValueError", 93)
          ELSE /\ atomList' = Append(atomList, ValueOf(lineElements[1]))
               /\ i' = i + 1
               /\ UNCHANGED <<fileList, pc, error, fi, opened, numAtoms, dumpLength,
                              numDumps, dumpStep, newPolymerData, idToIndex, j, t,
                              polymerList, polymerMeta, scanVars, axisVars>>

\* lines 95-98: sort the identifiers and number them
BuildIndex ==
    /\ pc = "ids"
    /\ i = numAtoms
    /\ atomList' = Sorted(atomList)
    /\ idToIndex' = IndexTable(Sorted(atomList))
    /\ i' = 0
    /\ j' = HEADER
    /\ pc' = "record"
    /\ UNCHANGED <<fileList, error, fi, opened, numAtoms, dumpLength, numDumps,
                   dumpStep, newPolymerData, t, polymerList, polymerMeta,
                   scanVars, axisVars>>

\* the row line j of chunk i is recorded in (line 108)
AtomIndexByPosition(atomId) == j - (i * dumpLength + HEADER)
AtomIndexOf(atomId) == idToIndex[atomId]

\* the cell line 109 assigns: newPolymerData[atomIndex][i]
TargetFirstColumn(atomIndex, chunk) == <<atomIndex, 0>>
Target(atomIndex, chunk) == <<atomIndex, chunk>>

\* lines 101-109, one iteration of the inner loop: atom line j of chunk i
RecordLine ==
    /\ pc = "record"
    /\ i < IntPart(numDumps)
    /\ IF j >= Len(lines) THEN Raise("IndexError", 104)
       ELSE LET lineElements == Split(LineAt(j))
            IN IF lineElements = <<>> THEN Raise("IndexError", 106)
               ELSE IF ~IsNumeric(lineElements[1]) THEN Raise("ValueError", 106)
               ELSE IF Len(lineElements) < 2 THEN Raise("IndexError", 107)
               ELSE IF ~IsNumeric(lineElements[2]) THEN Raise("ValueError", 107)
               ELSE IF ValueOf(lineElements[1]) \notin DOMAIN idToIndex THEN Raise("KeyError", 108)
               ELSE LET atomIndex == AtomIndexOf(ValueOf(lineElements[1]))
                        xPos == Float(ValueOf(lineElements[2]))
                        last == j + 1 = i * dumpLength + HEADER + numAtoms
                        cell == Target(atomIndex, i)
                    IN /\ newPolymerData' = [newPolymerData EXCEPT ![cell[1]][cell[2]] = xPos]
                       /\ i' = IF last THEN i + 1 ELSE i
                       /\ j' = IF last THEN (i + 1) * dumpLength + HEADER ELSE j + 1
                       /\ UNCHANGED <<fileList, pc, error, fi, opened, numAtoms,
                                      dumpLength, numDumps, dumpStep, atomList, idToIndex,
                                      t, polymerList, polymerMeta, scanVars, axisVars>>

\* lines 111-117: keep the matrix and its meta data, close the file
AppendPolymer ==
    /\ pc = "record"
    /\ i = IntPart(numDumps)
    /\ polymerList' = Append(polymerList, newPolymerData)
    /\ polymerMeta' = Append(polymerMeta,
            [numAtoms |-> numAtoms, numDumps |-> numDumps, dumpStep |-> dumpStep])
    /\ opened' = opened \ {fi}
    /\ pc' = "files"
    /\ UNCHANGED <<fileList, error, fi, readVars, i, j, t, scanVars, axisVars>>

\* the read loop is exhausted; lines 120-124 start the pre-processing loop
EndOfFiles ==
    /\ pc = "files"
    /\ fi = Len(fileList)
    /\ firstMonomerIndex' = <<>>
    /\ firstMonomerTime' = <<>>
    /\ distAxis' = <<>>
    /\ timeAxis' = <<>>
    /\ i' = 0
    /\ pc' = "polymers"
    /\ UNCHANGED <<fileList, error, fi, opened, readVars, j, t, polymerList,
                   polymerMeta, firstMonomerFound, firstMonomerCoords,
                   distArray, timeArray>>

(***************************************************************************)
(* The pre-processing loop (lines 124-157); polymerData is polymerList[i], *)
(* the same array object, so the division at line 144 changes it in place. *)
(***************************************************************************)
polymerData == polymerList[i + 1]
meta == polymerMeta[i + 1]

\* line 137: firstMonomerCoords = []
OriginCoords == <<0, 0>>
NoCoords == <<>>

\* lines 125-137: the empty output arrays and the scan's initial state
BeginPolymer ==
    /\ pc = "polymers"
    /\ i < Len(polymerList)
    /\ distArray' = [k \in 0..2 |-> EmptyArray(IntPart(meta.numDumps))]
    /\ timeArray' = [k \in 0..0 |-> EmptyArray(IntPart(meta.numDumps))]
    /\ firstMonomerFound' = FALSE
    /\ firstMonomerCoords' = NoCoords
    /\ t' = 0
    /\ j' = 0
    /\ pc' = "scan"
    /\ UNCHANGED <<fileList, error, fi, opened, readVars, i, polymerList, polymerMeta,
                   firstMonomerIndex, firstMonomerTime, distAxis, timeAxis>>

\* line 140: xPos = polymerData[j][t], taken before the division of line 144
ComparedAfterDivision(cell) == DivRF(cell)
Compared(cell) == cell

\* line 141: the test that records the first monomer
CrossesAny(xPos, found, ge) == ge
Crosses(xPos, found, ge) == ge /\ ~found

\* what reading a cell yields: its value, or, for a cell of np.empty that
\* was never assigned, whatever the memory held (one of the explored
\* coordinates; the cell stays marked as never assigned)
Reads(cell) ==
    IF cell.set THEN {cell}
    ELSE {[set |-> FALSE, num |-> v, den |-> 1] : v \in Coords}

\* line 111 appends the array object itself, and line 85 binds
\* newPolymerData to a new array only when a further file is read: in the
\* pre-processing loop (reached only when no file raised) newPolymerData is
\* the last element of polymerList, the same object
IsNewPolymerData(k) == k = Len(polymerList)

\* lines 138-144, one iteration of the inner loop: compare cell (j, t) with
\* x1, then divide it by RF, in place: the division shows in newPolymerData
\* too when the matrix scanned is the one it names
ScanCell ==
    /\ pc = "scan"
    /\ t < IntPart(meta.numDumps)
    /\ \E held \in Reads(polymerData[j][t]) :
          LET xPos == Compared(held)
              last == j + 1 = meta.numAtoms
          IN /\ IF Crosses(xPos, firstMonomerFound, GE(xPos, x1))
                THEN /\ firstMonomerFound' = TRUE
                     /\ firstMonomerCoords' = <<j, t>>
                ELSE UNCHANGED <<firstMonomerFound, firstMonomerCoords>>
             /\ polymerList' = [polymerList EXCEPT ![i + 1][j][t] = DivRF(held)]
             /\ newPolymerData' =
                   IF IsNewPolymerData(i + 1)
                   THEN [newPolymerData EXCEPT ![j][t] = DivRF(held)]
                   ELSE newPolymerData
             /\ j' = IF last THEN 0 ELSE j + 1
             /\ t' = IF last THEN t + 1 ELSE t
    /\ UNCHANGED <<fileList, pc, error, fi, opened, numAtoms, dumpLength, numDumps,
                   dumpStep, atomList, idToIndex, i, polymerMeta,
                   firstMonomerIndex, firstMonomerTime, axisVars>>

\* lines 145-147: firstMonomerCoords[0] of the empty list raises IndexError
RecordFirstMonomer ==
    /\ pc = "scan"
    /\ t = IntPart(meta.numDumps)
    /\ IF firstMonomerCoords = <<>> THEN Raise("IndexError", 145)
       ELSE /\ firstMonomerIndex' = Append(firstMonomerIndex, firstMonomerCoords[1])
            /\ firstMonomerTime' = Append(firstMonomerTime, firstMonomerCoords[2])
            /\ t' = 0
            /\ pc' = "series"
            /\ UNCHANGED <<fileList, error, fi, opened, readVars, i, j, polymerList,
                           polymerMeta, firstMonomerFound, firstMonomerCoords, axisVars>>

\* line 154: (t - firstMonomerTime[i]) * TIMESTEP * dumpStep, in 1e-5 ns
TimeOfUnshifted(step, origin, dStep) == step * TIMESTEP * dStep
TimeOf(step, origin, dStep) == (step - origin) * TIMESTEP * dStep

\* the rows the three series copy (lines 151-153): head, tail, front
SeriesRow(k, atoms, front) ==
    IF k = 0 THEN 0 ELSE IF k = 1 THEN atoms - 1 ELSE front

\* lines 150-154, one iteration
SeriesStep ==
    /\ pc = "series"
    /\ t < IntPart(meta.numDumps)
    /\ distArray' = [k \in 0..2 |->
            [distArray[k] EXCEPT
                ![t] = polymerData[SeriesRow(k, meta.numAtoms, firstMonomerIndex[i + 1])][t]]]
    /\ timeArray' = [timeArray EXCEPT
            ![0][t] = Float(TimeOf(t, firstMonomerTime[i + 1], meta.dumpStep))]
    /\ t' = t + 1
    /\ UNCHANGED <<fileList, pc, error, fi, opened, readVars, i, j, polymerList,
                   polymerMeta, scanVars, distAxis, timeAxis>>

\* lines 156-157, and the next polymer
AppendAxes ==
    /\ pc = "series"
    /\ t = IntPart(meta.numDumps)
    /\ distAxis' = Append(distAxis, distArray)
    /\ timeAxis' = Append(timeAxis, timeArray)
    /\ i' = i + 1
    /\ pc' = "polymers"
    /\ UNCHANGED <<fileList, error, fi, opened, readVars, j, t, polymerList,
                   polymerMeta, scanVars, distArray, timeArray>>

\* the pre-processing loop is exhausted: the series go to the plot
EndOfPolymers ==
    /\ pc = "polymers"
    /\ i = Len(polymerList)
    /\ pc' = "plot"
    /\ UNCHANGED <<fileList, error, fi, opened, readVars, i, j, t, polymerList,
                   polymerMeta, scanVars, axisVars>>

Next ==
    \/ OpenFile
    \/ SkipFile
    \/ ReadHeader
    \/ IdentifyAtom
    \/ BuildIndex
    \/ RecordLine
    \/ AppendPolymer
    \/ EndOfFiles
    \/ BeginPolymer
    \/ ScanCell
    \/ RecordFirstMonomer
    \/ SeriesStep
    \/ AppendAxes
    \/ EndOfPolymers

Spec == Init /\ [][Next]_vars

(***************************************************************************)
(* Vocabulary of the properties                                            *)
(***************************************************************************)
\* the script is in (or was stopped inside) the pre-processing loop
InPre == pc \in {"polymers", "scan", "series", "plot"}
             \/ (pc = "raised" /\ error.line = 145)

Atoms(k) == 0..(polymerMeta[k].numAtoms - 1)
Steps(k) == 0..(IntPart(polymerMeta[k].numDumps) - 1)

\* cell (a, u) of the k-th matrix has been through line 140-144
Scanned(k, a, u) ==
    /\ InPre
    /\ \/ k <= i
       \/ k = i + 1 /\ pc \in {"series", "raised"}
       \/ k = i + 1 /\ pc = "scan" /\ (u < t \/ (u = t /\ a < j))

\* the value times RF: what a cell held before one division by RF
TimesRF(cell) == [set |-> cell.set, num |-> cell.num * RFNum, den |-> cell.den * RFDen]
\* the raw (unnormalized) coordinate of cell (a, u) of the k-th matrix
RawCell(k, a, u) ==
    IF Scanned(k, a, u) THEN TimesRF(polymerList[k][a][u]) ELSE polymerList[k][a][u]
AtWall(k, a, u) == GE(RawCell(k, a, u), x1)

\* (a, u) comes before (b, v) in time-major order
Before(a, u, b, v) == u < v \/ (u = v /\ a < b)

\* <<a, u>> is the first scanned cell at the wall, in time-major order
IsFirstAtWall(k, a, u) ==
    /\ a \in Atoms(k) /\ u \in Steps(k)
    /\ Scanned(k, a, u)
    /\ AtWall(k, a, u)
    /\ \A b \in Atoms(k), v \in Steps(k) :
          (Scanned(k, b, v) /\ AtWall(k, b, v)) => ~Before(b, v, a, u)
NoneAtWall(k) ==
    \A b \in Atoms(k), v \in Steps(k) : Scanned(k, b, v) => ~AtWall(k, b, v)

\* the scan of the k-th matrix has run to its end
ScanComplete(k) == InPre /\ (k <= i \/ (k = i + 1 /\ pc \in {"series", "raised"}))

(***************************************************************************)
(* C1.  The crossing scan returns the first cell at the wall in time-major *)
(* order: the smallest timestep with any raw cell >= x1, and at that       *)
(* timestep the smallest atom index; once recorded, the pair is not        *)
(* replaced by a later cell at the wall.  Stated at every point of the     *)
(* scan (over the cells scanned so far) and of every finished scan.        *)
(***************************************************************************)
C1_FirstCrossing ==
    InPre =>
      /\ pc = "scan" =>
            IF firstMonomerFound
            THEN /\ Len(firstMonomerCoords) = 2
                 /\ IsFirstAtWall(i + 1, firstMonomerCoords[1], firstMonomerCoords[2])
            ELSE firstMonomerCoords = <<>> /\ NoneAtWall(i + 1)
      /\ \A k \in 1..Len(firstMonomerIndex) :
            IsFirstAtWall(k, firstMonomerIndex[k], firstMonomerTime[k])
      /\ \A k \in 1..Len(polymerList) :
            (ScanComplete(k) /\ ~NoneAtWall(k)) => k <= Len(firstMonomerIndex)

\* a finished scan whose crossing is neither at timestep 0 nor at atom 0,
\* with a second atom at the wall in the same timestep
C1_Witness ==
    /\ pc = "plot"
    /\ \E k \in 1..Len(firstMonomerIndex) :
          /\ firstMonomerIndex[k] >= 1
          /\ firstMonomerTime[k] >= 1
          /\ \E b \in Atoms(k) :
                b > firstMonomerIndex[k] /\ AtWall(k, b, firstMonomerTime[k])
          /\ \E b \in Atoms(k) : \A v \in Steps(k) : polymerList[k][b][v].set

(***************************************************************************)
(* C2.  When no cell of a matrix is >= x1, nothing is recorded for it: no  *)
(* (atom, timestep) pair, in particular not (0, 0), and no series.  The    *)
(* script stops with the IndexError of line 145 instead.                   *)
(***************************************************************************)
C2_NoCrossingNoResult ==
    \A k \in 1..Len(polymerList) :
       (ScanComplete(k) /\ NoneAtWall(k)) =>
          /\ Len(firstMonomerIndex) < k
          /\ Len(firstMonomerTime) < k
          /\ Len(distAxis) < k
          /\ Len(timeAxis) < k
          /\ pc = "raised"
          /\ error = [exc |-> "IndexError", line |-> 145]
          /\ \A u \in Steps(k) : \A r \in 0..2 : ~distArray[r][u].set
          /\ \A u \in Steps(k) : ~timeArray[0][u].set

\* the second matrix of a batch has no crossing; the first one had its series
C2_Witness ==
    /\ pc = "raised"
    /\ Len(polymerList) = 2
    /\ ScanComplete(2)
    /\ NoneAtWall(2)
    /\ Len(distAxis) = 1

(***************************************************************************)
(* C6.  In the fused scan every cell is divided by RF exactly once,        *)
(* whether or not a crossing has been found, and never before it is        *)
(* compared: a cell the scan has passed holds value / RF, a cell it has    *)
(* not reached (the one about to be compared included) is unnormalized,    *)
(* and the comparisons made so far found a crossing exactly when a passed  *)
(* cell's unnormalized value is >= x1.                                     *)
(***************************************************************************)
C6_DividedOnceAfterCompare ==
    /\ \A k \in 1..Len(polymerList) : \A a \in Atoms(k), u \in Steps(k) :
          /\ Scanned(k, a, u) => polymerList[k][a][u].den = RFNum
          /\ ~Scanned(k, a, u) => polymerList[k][a][u].den = 1
    /\ pc = "scan" => (firstMonomerFound <=> ~NoneAtWall(i + 1))

\* in the middle of a scan, after the crossing was found, at a later timestep
C6_Witness ==
    /\ pc = "scan"
    /\ firstMonomerFound
    /\ j >= 1
    /\ t > firstMonomerCoords[2]
    /\ polymerList[i + 1][j - 1][t].den = RFNum
    /\ polymerList[i + 1][j][t].den = 1

(***************************************************************************)
(* C7.  For every processed file with a crossing (jc, tc) the four series  *)
(* have one entry per timestep 0..int(numDumps)-1; head, tail and front    *)
(* are rows 0, numAtoms-1 and jc of the normalized matrix; time[t] is      *)
(* (t - tc) * TIMESTEP * dumpStep, so 0 at tc and, for dumpStep > 0,       *)
(* negative before and positive after.                                     *)
(***************************************************************************)
C7_Series ==
    \A k \in 1..Len(distAxis) :
       LET jc == firstMonomerIndex[k]
           tc == firstMonomerTime[k]
           m == polymerList[k]
           n == polymerMeta[k].numAtoms
           dStep == polymerMeta[k].dumpStep
           time == timeAxis[k][0]
       IN /\ Len(timeAxis) = Len(distAxis)
          /\ DOMAIN distAxis[k] = 0..2
          /\ DOMAIN timeAxis[k] = 0..0
          /\ \A r \in 0..2 : DOMAIN distAxis[k][r] = Steps(k)
          /\ DOMAIN time = Steps(k)
          /\ tc \in Steps(k)
          /\ \A u \in Steps(k) :
                /\ distAxis[k][0][u] = m[0][u]
                /\ distAxis[k][1][u] = m[n - 1][u]
                /\ distAxis[k][2][u] = m[jc][u]
                /\ m[0][u].den = RFNum /\ m[n - 1][u].den = RFNum /\ m[jc][u].den = RFNum
                /\ time[u].set /\ time[u].den = 1
                /\ time[u].num = (u - tc) * TIMESTEP * dStep
                /\ u = tc => time[u].num = 0
                /\ (dStep > 0 /\ u < tc) => time[u].num < 0
                /\ (dStep > 0 /\ u > tc) => time[u].num > 0

\* series of a three-atom file whose front monomer is the middle atom and
\* whose crossing is not at the first timestep
C7_Witness ==
    /\ pc = "plot"
    /\ \E k \in 1..Len(distAxis) :
          /\ polymerMeta[k].numAtoms = 3
          /\ polymerMeta[k].dumpStep > 0
          /\ firstMonomerIndex[k] = 1
          /\ firstMonomerTime[k] >= 1
          /\ distAxis[k][2] # distAxis[k][0]
          /\ distAxis[k][2] # distAxis[k][1]

(***************************************************************************)
(* Vocabulary of the properties: the text of a file f, read as the format  *)
(* lays it out (not as the script reads it)                                *)
(***************************************************************************)
HeaderReadable(f) == Len(f) >= 4 /\ IntParses(ChopLast(f[4]))
FAtoms(f) == IntOf(ChopLast(f[4]))
FLength(f) == FAtoms(f) + HEADER
\* the number of complete chunks
FChunks(f) == Len(f) \div FLength(f)
\* the p-th atom line (p = 1..) of chunk c (c = 0..)
FAtomLine(f, c, p) == f[c * FLength(f) + HEADER + p]
FHasId(f, c, p) == Len(FAtomLine(f, c, p).toks) >= 1 /\ FAtomLine(f, c, p).toks[1].num
FId(f, c, p) == FAtomLine(f, c, p).toks[1].v
FHasX(f, c, p) == Len(FAtomLine(f, c, p).toks) >= 2 /\ FAtomLine(f, c, p).toks[2].num
FX(f, c, p) == FAtomLine(f, c, p).toks[2].v
FIds(f, c) == {FId(f, c, p) : p \in 1..FAtoms(f)}
\* the identifiers of chunk c are numbers, no two the same
FDistinct(f, c) ==
    /\ \A p \in 1..FAtoms(f) : FHasId(f, c, p)
    /\ \A p, q \in 1..FAtoms(f) : FId(f, c, p) = FId(f, c, q) => p = q
\* every complete chunk lists every identifier of the first chunk once
FWellListed(f) ==
    \A c \in 0..(FChunks(f) - 1) : FDistinct(f, c) /\ FIds(f, c) = FIds(f, 0)
\* the rank of an identifier among the identifiers of chunk c
FRank(f, c, id) == Cardinality({b \in FIds(f, c) : b < id})

\* the read loop is at file fi, past its length checks
Assembling == pc \in {"ids", "record"}

(***************************************************************************)
(* C3 as claimed.  After assembling a file every cell has been written     *)
(* exactly once, for every file that passes the length checks, repeated    *)
(* identifiers included: no line is recorded in a cell that is already     *)
(* written, and no cell is unwritten when the recording ends.              *)
(***************************************************************************)
WrittenBefore(a, u) ==
    \/ u < i
    \/ u = i /\ \E p \in 1..numAtoms :
                   /\ i * dumpLength + HEADER + p - 1 < j
                   /\ FId(lines, i, p) \in DOMAIN idToIndex
                   /\ idToIndex[FId(lines, i, p)] = a
NextLineReadable ==
    /\ i < IntPart(numDumps)
    /\ j < Len(lines)
    /\ Len(LineAt(j).toks) >= 1 /\ LineAt(j).toks[1].num
    /\ LineAt(j).toks[1].v \in DOMAIN idToIndex
EachCellOnce ==
    /\ \A a \in 0..(numAtoms - 1), u \in 0..(IntPart(numDumps) - 1) :
          newPolymerData[a][u].set <=> WrittenBefore(a, u)
    /\ NextLineReadable => ~newPolymerData[idToIndex[LineAt(j).toks[1].v]][i].set
    /\ DOMAIN newPolymerData = 0..(numAtoms - 1)
    /\ \A a \in 0..(numAtoms - 1) : DOMAIN newPolymerData[a] = 0..(IntPart(numDumps) - 1)
    /\ i = IntPart(numDumps) =>
          \A a \in 0..(numAtoms - 1), u \in 0..(IntPart(numDumps) - 1) :
             newPolymerData[a][u].set
\* C3 as claimed: each cell written exactly once, for every file recorded
C3_Original == pc = "record" => EachCellOnce

(***************************************************************************)
(* C3 as amended.  The same, for every file that passes the length checks  *)
(* and whose complete chunks each list every identifier of the first chunk *)
(* exactly once.                                                           *)
(***************************************************************************)
\* C3 as amended: each cell written exactly once, identifiers listed once per chunk
C3_WrittenOnce == (pc = "record" /\ FWellListed(lines)) => EachCellOnce

\* a three-atom file with unsorted identifiers, fully recorded
C3_Witness ==
    /\ pc = "record"
    /\ FWellListed(lines)
    /\ numAtoms = 3
    /\ i = IntPart(numDumps)
    /\ i >= 2
    /\ FId(lines, 0, 1) > FId(lines, 0, 2)
    /\ FId(lines, 1, 1) # FId(lines, 0, 1)

(***************************************************************************)
(* C4.  The assembled matrix does not depend on the order of the atom      *)
(* lines inside the chunks.  For a file whose chunks each list the same    *)
(* distinct identifiers, row a, column u holds the coordinate that chunk u *)
(* gives for the identifier of rank a, which depends only on the set of    *)
(* (identifier, coordinate) pairs of the chunk; and two such files of one  *)
(* batch that differ only in the order of atom lines inside chunks end     *)
(* with the same matrix, crossing and series.                              *)
(***************************************************************************)
SamePairs(f, g) ==
    /\ Len(f) = Len(g)
    /\ HeaderReadable(f) /\ HeaderReadable(g)
    /\ FAtoms(f) = FAtoms(g)
    /\ FWellListed(f) /\ FWellListed(g)
    /\ \A k \in 1..Len(f) : ((k - 1) % FLength(f) < HEADER) => f[k] = g[k]
    /\ \A c \in 0..(FChunks(f) - 1) :
          {FAtomLine(f, c, p) : p \in 1..FAtoms(f)} = {FAtomLine(g, c, p) : p \in 1..FAtoms(g)}
\* C4: the matrix is a function of each chunk's set of (identifier, coordinate) pairs
C4_OrderIrrelevant ==
    /\ (pc = "record" /\ i = IntPart(numDumps) /\ FWellListed(lines)) =>
          \A u \in 0..(FChunks(lines) - 1), p \in 1..FAtoms(lines) :
             newPolymerData[FRank(lines, u, FId(lines, u, p))][u] = Float(FX(lines, u, p))
    /\ (Len(polymerList) = Len(fileList) /\ ((pc = "polymers" /\ i = 0) \/ pc = "plot")) =>
          \A a, b \in 1..Len(fileList) :
             SamePairs(fileList[a], fileList[b]) =>
                /\ polymerList[a] = polymerList[b]
                /\ pc = "plot" =>
                      /\ firstMonomerIndex[a] = firstMonomerIndex[b]
                      /\ firstMonomerTime[a] = firstMonomerTime[b]
                      /\ distAxis[a] = distAxis[b]
                      /\ timeAxis[a] = timeAxis[b]

\* two different files of one batch, same atoms in different line orders,
\* both processed to the end
C4_Witness ==
    /\ pc = "plot"
    /\ Len(fileList) = 2
    /\ Len(distAxis) = 2
    /\ fileList[1] # fileList[2]
    /\ SamePairs(fileList[1], fileList[2])
    /\ FId(fileList[2], 0, 1) > FId(fileList[2], 0, 2)
    /\ FAtomLine(fileList[1], 1, 1) # FAtomLine(fileList[2], 1, 1)
    /\ polymerList[1] = polymerList[2]

(***************************************************************************)
(* C5 as claimed.  For all files the mapping built from the first chunk is *)
(* a bijection between the identifiers of the first chunk and the indices  *)
(* 0..numAtoms-1, ascending in the identifier, and the same mapping serves *)
(* every chunk.                                                            *)
(***************************************************************************)
IndexRange == {idToIndex[id] : id \in DOMAIN idToIndex}
IntoAndAscending ==
    /\ DOMAIN idToIndex = FIds(lines, 0)
    /\ IndexRange \subseteq 0..(numAtoms - 1)
    /\ \A a, b \in DOMAIN idToIndex : a < b => idToIndex[a] < idToIndex[b]
    /\ \A a, b \in DOMAIN idToIndex : idToIndex[a] = idToIndex[b] => a = b
\* C5 as claimed: the mapping is a bijection onto 0..numAtoms-1 for all files
C5_Original ==
    pc = "record" => (IntoAndAscending /\ IndexRange = 0..(numAtoms - 1))

(***************************************************************************)
(* C5 as amended.  For all files the mapping sends every identifier of the *)
(* first chunk to its own index in [0, numAtoms), ascending in the         *)
(* identifier, and is the same for every chunk; it reaches every index of  *)
(* 0..numAtoms-1 (is a bijection) when no identifier is repeated in the    *)
(* first chunk.  (In general the index of an identifier is the number of   *)
(* first-chunk lines with an identifier not above it, less one.)           *)
(***************************************************************************)
\* C5 as amended: one-to-one and ascending for all files, onto without repeats
C5_IndexMap ==
    pc = "record" =>
       /\ IntoAndAscending
       /\ \A id \in DOMAIN idToIndex :
             idToIndex[id] = Cardinality({p \in 1..numAtoms : FId(lines, 0, p) <= id}) - 1
       /\ FDistinct(lines, 0) => IndexRange = 0..(numAtoms - 1)

\* recording a later chunk of a three-atom file whose first chunk is unsorted
C5_Witness ==
    /\ pc = "record"
    /\ i >= 1
    /\ numAtoms = 3
    /\ FDistinct(lines, 0)
    /\ FId(lines, 0, 1) > FId(lines, 0, 2)
    /\ IndexRange = 0..2

(***************************************************************************)
(* C8 as claimed, for the files the length checks let through: when the    *)
(* line count is not a multiple of dumpLength, exactly                     *)
(* floor(totalLines / dumpLength) chunks are processed, no line of the     *)
(* partial final chunk is read as atom data, and the truncation raises no  *)
(* error (no failure to read the header values, no line index out of       *)
(* range).                                                                 *)
(***************************************************************************)
Truncated(f) ==
    /\ HeaderReadable(f)
    /\ Len(f) >= FLength(f) + 2
    /\ Len(f) % FLength(f) # 0
InReadLoop == pc \in {"header", "ids", "record"} \/ (pc = "raised" /\ error.line < 120)
\* C8 as claimed: floor(totalLines / dumpLength) chunks, no error from the truncation
C8_Truncation ==
    (InReadLoop /\ Truncated(lines)) =>
       /\ ~(pc = "raised" /\ error.line \in {84, 104})
       /\ Assembling =>
             /\ numDumps = <<Len(lines), FLength(lines)>>
             /\ \A a \in DOMAIN newPolymerData :
                   DOMAIN newPolymerData[a] = 0..(FChunks(lines) - 1)
       /\ (pc = "record" /\ i < IntPart(numDumps)) =>
             /\ i < FChunks(lines)
             /\ j < FChunks(lines) * FLength(lines)
             /\ j % FLength(lines) >= HEADER

(***************************************************************************)
(* C9 as claimed.  Per-file errors are isolated: a bad file does not abort *)
(* the batch, so the script never ends on an exception while a valid file  *)
(* of the list is left without its series.                                 *)
(***************************************************************************)
ValidFile(f) ==
    /\ HeaderReadable(f)
    /\ Len(f) >= FLength(f) + 2
    /\ IntParses(ChopLast(f[FLength(f) + 2]))
    /\ FWellListed(f)
    /\ \A c \in 0..(FChunks(f) - 1), p \in 1..FAtoms(f) : FHasX(f, c, p)
    /\ \E c \in 0..(FChunks(f) - 1), p \in 1..FAtoms(f) : FX(f, c, p) >= x1
\* C9 as claimed: no exception ends the script before every valid file has its series
C9_Isolation ==
    pc = "raised" =>
       Len(distAxis) >= Cardinality({k \in 1..Len(fileList) : ValidFile(fileList[k])})

(***************************************************************************)
(* C10 as claimed.  Every file handle is closed before the next file is    *)
(* opened, on the skip paths too: never two handles open, none open when   *)
(* the read loop takes its next file, none open once the read loop ended.  *)
(***************************************************************************)
C10_HandlesReleased ==
    /\ Cardinality(opened) <= 1
    /\ pc = "files" => opened = {}
    /\ InPre => opened = {}

====
